---- MODULE Spec2Model ----
(***************************************************************************)
(* A model of predsim (src/predsim.py): the translation of one MrBayes     *)
(* parameter record into Seq-Gen parameters (kappa_to_titv,                *)
(* get_seqgen_params), the pairing of trees, records and seeds             *)
(* (combine_simulation_input) and the lazy per-record simulation           *)
(* (iter_seqgen_results, simulate_matrix).                                 *)
(*                                                                         *)
(* Python values are modelled as follows.                                  *)
(*   None / a value     : <<>> / <<v>>  (None, Some(v))                    *)
(*   a float            : a reduced fraction <<n, d>> with d > 0 (exact    *)
(*                        arithmetic, no rounding)                         *)
(*   a str              : a TLA+ string; + is \o                           *)
(*   a dict             : a function whose DOMAIN is the set of its keys   *)
(*   a call's outcome   : [exc |-> "none", val |-> v] when it returns v,   *)
(*                        [exc |-> <exception class>, ...] when it raises  *)
(***************************************************************************)
EXTENDS Integers, Sequences, FiniteSets, TLC

VARIABLES
    tree_list,          \* main: the trees read from the t-file
    p_dicts,            \* main: the parameter records read from the p-file
    rng_seeds,          \* main: None or the list of seeds
    gamma_cats,         \* main: parser.gamma_cats, None or an integer
    pc,                 \* where the run is
    simulation_input,   \* None or the zip object combine_simulation_input returned
    results,            \* the SeqGenResult records yielded so far
    calls,              \* the invocations of the external simulator so far
    requests,           \* how many times the caller asked for the next record
    error,              \* the exception that reached the caller, "none" if none
    mrbayes_params,     \* the argument of a direct call of get_seqgen_params
    seqgen_params,      \* None or the outcome of that call
    titv_args,          \* the arguments of direct calls of kappa_to_titv
    titv,               \* None or the outcomes of those calls
    commands_filepath,  \* main: parser.commands_filepath, None or a path
    trees_filepath,     \* main: parser.trees_filepath, None or a path
    todo,               \* main: the writes of the current record still to do
    sinks,              \* what has been written to stdout and to the two files
    read_args,          \* the arguments of direct calls of read_tfile and read_pfile
    read_out            \* None or the outcomes of those calls

vars == <<tree_list, p_dicts, rng_seeds, gamma_cats, pc, simulation_input,
          results, calls, requests, error, mrbayes_params, seqgen_params,
          titv_args, titv, commands_filepath, trees_filepath, todo, sinks,
          read_args, read_out>>

pipeline_vars == <<tree_list, p_dicts, rng_seeds, gamma_cats, simulation_input,
                   results, calls, requests, error,
                   commands_filepath, trees_filepath, todo, sinks>>

(***************************************************************************)
(* Bounds of the model.                                                    *)
(***************************************************************************)
MaxN == 2           \* at most this many trees, and this many records
MaxSeeds == 3       \* at most this many seeds
MaxKappa == 2       \* kappa_to_titv is applied to kappa in 0..MaxKappa
MaxFreqNum == 3     \* ... and to frequencies n/FreqUnit, n in 0..MaxFreqNum
FreqUnit == 10
MaxFactor == 2      \* ... and to those frequencies times 1..MaxFactor
MaxGammaCats == 1   \* --gamma-cats is absent or in 1..MaxGammaCats
MaxExtraRequests == 1   \* next() is called at most this often on an ended iterator
MaxDraws == 3       \* the t-file and the p-file hold at most this many draws
MaxSkip == 3        \* --skip is in 0..MaxSkip
MaxNumRecords == 3  \* --num-records is absent or in 0..MaxNumRecords

(***************************************************************************)
(* Values.                                                                 *)
(***************************************************************************)
None == <<>>
Some(v) == <<v>>

RECURSIVE GCD(_, _)
GCD(a, b) == IF b = 0 THEN a ELSE GCD(b, a % b)

Abs(n) == IF n < 0 THEN -n ELSE n

\* The fraction n/d (d # 0) in lowest terms with a positive denominator.
Frac(n, d) ==
    LET g == GCD(Abs(n), Abs(d))
        s == IF d < 0 THEN -1 ELSE 1
    IN  <<(s * n) \div g, (s * d) \div g>>

FAdd(x, y) == Frac(x[1] * y[2] + y[1] * x[2], x[2] * y[2])
FSub(x, y) == Frac(x[1] * y[2] - y[1] * x[2], x[2] * y[2])
FMul(x, y) == Frac(x[1] * y[1], x[2] * y[2])
\* x / y, for y # 0
FDiv(x, y) == Frac(x[1] * y[2], x[2] * y[1])
FAbs(x) == <<Abs(x[1]), x[2]>>
FGt(x, y) == x[1] * y[2] > y[1] * x[2]
FZero == <<0, 1>>
FOne == <<1, 1>>

\* Python's truth value of a float, and of a str.
FloatTruthy(x) == x[1] # 0
StrTruthy(s) == s # ""

(***************************************************************************)
(* kappa_to_titv                                                           *)
(***************************************************************************)
TolDen == 1000000
Tolerance == <<1, TolDen>>

Raise(e) == [exc |-> e]
Return(v) == [exc |-> "none", val |-> v]

\* titv = kappa * (piA * piG + piC * piT) / ((piA + piG) * (piC + piT))
titv_formula(kappa, piA, piC, piG, piT) ==
    LET den == FMul(FAdd(piA, piG), FAdd(piC, piT))
    IN  IF den = FZero THEN Raise("ZeroDivisionError")
        ELSE Return(FDiv(FMul(kappa, FAdd(FMul(piA, piG), FMul(piC, piT))), den))

\* A faulty variant: only piA is divided by the sum.
kappa_to_titv_rescale_one(kappa, piA, piC, piG, piT) ==
    LET tot == FAdd(FAdd(FAdd(piA, piC), piG), piT)
    IN  IF FGt(FAbs(FSub(tot, FOne)), Tolerance)
        THEN IF tot = FZero THEN Raise("ZeroDivisionError")
             ELSE titv_formula(kappa, FDiv(piA, tot), piC, piG, piT)
        ELSE titv_formula(kappa, piA, piC, piG, piT)

\* A faulty variant: a zero denominator gives 0 instead of raising.
kappa_to_titv_guarded(kappa, piA, piC, piG, piT) ==
    LET den == FMul(FAdd(piA, piG), FAdd(piC, piT))
    IN  IF den = FZero THEN Return(FZero)
        ELSE titv_formula(kappa, piA, piC, piG, piT)

kappa_to_titv(kappa, piA, piC, piG, piT) ==
    LET tot == FAdd(FAdd(FAdd(piA, piC), piG), piT)
    IN  IF FGt(FAbs(FSub(tot, FOne)), Tolerance)
        THEN IF tot = FZero THEN Raise("ZeroDivisionError")
             ELSE titv_formula(kappa, FDiv(piA, tot), FDiv(piC, tot),
                               FDiv(piG, tot), FDiv(piT, tot))
        ELSE titv_formula(kappa, piA, piC, piG, piT)

(***************************************************************************)
(* Direct calls of kappa_to_titv: on (kappa, piA, piC, piG, piT) and on    *)
(* the same frequencies multiplied by a common factor.                     *)
(***************************************************************************)
TitvFreqs == {Frac(n, FreqUnit) : n \in 0..MaxFreqNum}

TitvArgs ==
    [kappa : {Frac(k, 1) : k \in 0..MaxKappa},
     piA : TitvFreqs, piC : TitvFreqs, piG : TitvFreqs, piT : TitvFreqs,
     factor : {Frac(m, 1) : m \in 1..MaxFactor}]

Idle ==
    /\ tree_list = <<>> /\ p_dicts = <<>> /\ rng_seeds = None
    /\ gamma_cats = None /\ simulation_input = None
    /\ results = <<>> /\ calls = <<>> /\ requests = 0 /\ error = "none"
    /\ commands_filepath = None /\ trees_filepath = None
    /\ todo = <<>> /\ sinks = [stdout |-> <<>>, commands |-> <<>>, trees |-> <<>>]

NoRead == [draws |-> 0, skip |-> 0, num_records |-> None]

NoTitv == [kappa |-> FZero, piA |-> FZero, piC |-> FZero, piG |-> FZero,
           piT |-> FZero, factor |-> FOne]

InitTitv ==
    /\ Idle
    /\ pc = "titv"
    /\ mrbayes_params = <<>> /\ seqgen_params = None
    /\ titv_args \in TitvArgs
    /\ titv = None
    /\ read_args = NoRead /\ read_out = None

CallTitv ==
    /\ pc = "titv"
    /\ titv = None
    /\ titv' = Some([plain |-> kappa_to_titv(titv_args.kappa, titv_args.piA,
                                   titv_args.piC, titv_args.piG, titv_args.piT)])
    /\ UNCHANGED <<pipeline_vars, pc, mrbayes_params, seqgen_params, titv_args,
                   read_args, read_out>>

CallTitvScaled ==
    /\ pc = "titv"
    /\ titv # None
    /\ DOMAIN titv[1] = {"plain"}
    /\ LET f == titv_args.factor
       IN  titv' = Some([plain |-> titv[1].plain,
                         scaled |-> kappa_to_titv(titv_args.kappa,
                                       FMul(f, titv_args.piA), FMul(f, titv_args.piC),
                                       FMul(f, titv_args.piG), FMul(f, titv_args.piT))])
    /\ UNCHANGED <<pipeline_vars, pc, mrbayes_params, seqgen_params, titv_args,
                   read_args, read_out>>

NextTitv == CallTitv \/ CallTitvScaled

(***************************************************************************)
(* Values of a parameter record.  csv.DictReader gives str values; the     *)
(* callers of get_seqgen_params in test_predsim.py also give floats.       *)
(*   [str |-> s]   : the str s                                             *)
(*   [float |-> x] : the float x                                           *)
(***************************************************************************)
S(s) == [str |-> s]
F(n, d) == [float |-> Frac(n, d)]

\* float(s) for the decimal texts of the model.
ParseFloat(s) ==
    CASE s = "0.0"   -> Frac(0, 1)
      [] s = "0.1"   -> Frac(1, 10)
      [] s = "0.2"   -> Frac(1, 5)
      [] s = "0.25"  -> Frac(1, 4)
      [] s = "0.250" -> Frac(1, 4)
      [] s = "0.3"   -> Frac(3, 10)
      [] s = "0.5"   -> Frac(1, 2)
      [] s = "1.0"   -> Frac(1, 1)
      [] s = "2.0"   -> Frac(2, 1)

\* repr(x) for the floats of the model.
ReprFloat(x) ==
    CASE x = Frac(0, 1)  -> "0.0"
      [] x = Frac(1, 10) -> "0.1"
      [] x = Frac(1, 5)  -> "0.2"
      [] x = Frac(1, 4)  -> "0.25"
      [] x = Frac(3, 10) -> "0.3"
      [] x = Frac(1, 2)  -> "0.5"
      [] x = Frac(1, 1)  -> "1.0"
      [] x = Frac(2, 1)  -> "2.0"

\* str(v) and float(v)
Str(v) == IF "str" \in DOMAIN v THEN v.str ELSE ReprFloat(v.float)
Float(v) == IF "float" \in DOMAIN v THEN v.float ELSE ParseFloat(v.str)

(***************************************************************************)
(* get_seqgen_params                                                       *)
(***************************************************************************)
FreqKeys == <<"pi(A)", "pi(C)", "pi(G)", "pi(T)">>
RateKeys == <<"r(A<->C)", "r(A<->G)", "r(A<->T)", "r(C<->G)", "r(C<->T)", "r(G<->T)">>
Range(q) == {q[i] : i \in 1..Len(q)}

EmptyDict == <<>>
HasKeys(d, ks) == ks \subseteq DOMAIN d

RECURSIVE Join_reversed(_, _)
\* A faulty variant: the values are joined in the reverse order.
Join_reversed(d, ks) ==
    IF Len(ks) = 1 THEN Str(d[ks[1]])
    ELSE Join_reversed(d, Tail(ks)) \o "," \o Str(d[ks[1]])

RECURSIVE Join(_, _)
\* str(d[ks[1]]) + ',' + ... + str(d[ks[n]])
Join(d, ks) ==
    IF Len(ks) = 1 THEN Str(d[ks[1]])
    ELSE Str(d[ks[1]]) \o "," \o Join(d, Tail(ks))

EqualFreqs == "0.25,0.25,0.25,0.25"

\* The try block that sets seqgen_params['ti_tv'].
titv_entry(params) ==
    IF HasKeys(params, {"kappa"} \cup Range(FreqKeys))
    THEN kappa_to_titv(Float(params["kappa"]), Float(params["pi(A)"]),
                       Float(params["pi(C)"]), Float(params["pi(G)"]),
                       Float(params["pi(T)"]))
    ELSE Raise("KeyError")

\* What follows the ti_tv block: general_rates, gamma_shape, prop_invar.
rest_entries(params) ==
    (IF HasKeys(params, Range(RateKeys))
        THEN "general_rates" :> Join(params, RateKeys) ELSE EmptyDict)
    @@ (IF HasKeys(params, {"alpha"})
        THEN "gamma_shape" :> Str(params["alpha"]) ELSE EmptyDict)
    @@ (IF HasKeys(params, {"pinvar"})
        THEN "prop_invar" :> Str(params["pinvar"]) ELSE EmptyDict)

\* A faulty variant: a missing base frequency is an error (KeyError not caught).
get_seqgen_params_strict(params) ==
    LET t == titv_entry(params)
    IN  IF ~HasKeys(params, Range(FreqKeys)) THEN Raise("KeyError")
        ELSE IF t.exc = "none"
        THEN Return(("state_freqs" :> Join(params, FreqKeys)) @@ ("ti_tv" :> t.val)
                    @@ rest_entries(params))
        ELSE IF t.exc = "KeyError"
        THEN Return(("state_freqs" :> Join(params, FreqKeys)) @@ rest_entries(params))
        ELSE Raise(t.exc)

\* A faulty variant: general_rates is left out when ti_tv is set.
get_seqgen_params_exclusive(params) ==
    LET state_freqs == IF HasKeys(params, Range(FreqKeys))
                       THEN Join(params, FreqKeys) ELSE EqualFreqs
        t == titv_entry(params)
        rest == rest_entries(params)
    IN  IF t.exc = "none"
        THEN Return(("state_freqs" :> state_freqs) @@ ("ti_tv" :> t.val)
                    @@ [k \in DOMAIN rest \ {"general_rates"} |-> rest[k]])
        ELSE IF t.exc = "KeyError"
        THEN Return(("state_freqs" :> state_freqs) @@ rest)
        ELSE Raise(t.exc)

get_seqgen_params(params) ==
    LET state_freqs == IF HasKeys(params, Range(FreqKeys))
                       THEN Join(params, FreqKeys) ELSE EqualFreqs
        t == titv_entry(params)
    IN  IF t.exc = "none"
        THEN Return(("state_freqs" :> state_freqs) @@ ("ti_tv" :> t.val)
                    @@ rest_entries(params))
        ELSE IF t.exc = "KeyError"
        THEN Return(("state_freqs" :> state_freqs) @@ rest_entries(params))
        ELSE Raise(t.exc)

(***************************************************************************)
(* Direct calls of get_seqgen_params.                                      *)
(***************************************************************************)
FreqValues == {S("0.0"), S("0.250"), F(1, 2)}
KappaValues == {S("0.0"), F(2, 1)}
RateValues == {S("1.0")}
ShapeValues == {S("0.5")}

\* The dicts over the keys ks with values in vs: each key absent or present.
Dicts(ks, vs) == UNION {[sub -> vs] : sub \in SUBSET ks}

ParamRecords ==
    {f @@ k @@ r @@ a @@ p :
        f \in Dicts(Range(FreqKeys), FreqValues),
        k \in Dicts({"kappa"}, KappaValues),
        r \in {x \in Dicts(Range(RateKeys), RateValues) :
                   Cardinality(DOMAIN x) \in {0, 5, 6}},
        a \in Dicts({"alpha"}, ShapeValues),
        p \in Dicts({"pinvar"}, ShapeValues)}

InitParams ==
    /\ Idle
    /\ pc = "params"
    /\ mrbayes_params \in ParamRecords
    /\ seqgen_params = None
    /\ titv_args = NoTitv /\ titv = None
    /\ read_args = NoRead /\ read_out = None

CallGetSeqgenParams ==
    /\ pc = "params"
    /\ seqgen_params = None
    /\ seqgen_params' = Some(get_seqgen_params(mrbayes_params))
    /\ UNCHANGED <<pipeline_vars, pc, mrbayes_params, titv_args, titv,
                   read_args, read_out>>

NextParams == CallGetSeqgenParams

(***************************************************************************)
(* combine_simulation_input                                                *)
(***************************************************************************)
Min(a, b) == IF a < b THEN a ELSE b

\* Python's truth value of a list.
ListTruthy(l) == Len(l) > 0

\* zip(a, b, c): an iterator over the three lists, pos elements consumed.
Zip(a, b, c) == [trees |-> a, dicts |-> b, seeds |-> c, pos |-> 0]
ZipLen(z) == Min(Len(z.trees), Min(Len(z.dicts), Len(z.seeds)))
ZipItem(z, i) == <<z.trees[i], z.dicts[i], z.seeds[i]>>

\* A faulty variant: the assertion on the number of seeds is strict.
combine_simulation_input_strict(trees, dicts, seeds) ==
    IF ~(Len(dicts) = Len(trees)) THEN Raise("AssertionError")
    ELSE IF seeds # None /\ ~(Len(dicts) < Len(seeds[1])) THEN Raise("AssertionError")
    ELSE IF ~(Len(dicts) > 0) THEN Raise("AssertionError")
    ELSE Return(Zip(trees, dicts,
                    IF seeds # None /\ ListTruthy(seeds[1]) THEN seeds[1]
                    ELSE [i \in 1..Len(dicts) |-> None]))

\* A faulty variant: the seeds are taken from the end of the list.
combine_simulation_input_last_seeds(trees, dicts, seeds) ==
    IF ~(Len(dicts) = Len(trees)) THEN Raise("AssertionError")
    ELSE IF seeds # None /\ ~(Len(dicts) <= Len(seeds[1])) THEN Raise("AssertionError")
    ELSE IF ~(Len(dicts) > 0) THEN Raise("AssertionError")
    ELSE Return(Zip(trees, dicts,
                    IF seeds # None /\ ListTruthy(seeds[1])
                    THEN SubSeq(seeds[1], Len(seeds[1]) - Len(dicts) + 1, Len(seeds[1]))
                    ELSE [i \in 1..Len(dicts) |-> None]))

combine_simulation_input(trees, dicts, seeds) ==
    IF ~(Len(dicts) = Len(trees)) THEN Raise("AssertionError")
    ELSE IF seeds # None /\ ~(Len(dicts) <= Len(seeds[1])) THEN Raise("AssertionError")
    ELSE IF ~(Len(dicts) > 0) THEN Raise("AssertionError")
    ELSE Return(Zip(trees, dicts,
                    IF seeds # None /\ ListTruthy(seeds[1]) THEN seeds[1]
                    ELSE [i \in 1..Len(dicts) |-> None]))

(***************************************************************************)
(* simulate_matrix.  kwargs is the dict of the keyword arguments given;    *)
(* an argument not given has its default.  The Seq-Gen run itself          *)
(* (s.generate) is outside this program: it returns a matrix (ok) or       *)
(* raises.                                                                 *)
(***************************************************************************)
DefaultSeqLen == 1000

Arg(kwargs, name) == IF name \in DOMAIN kwargs THEN Some(kwargs[name]) ELSE None

as_string(tree) == <<"newick", tree[2]>>

\* The attributes simulate_matrix sets on the SeqGen object; ti_tv and
\* general_rates are None when it leaves them as SeqGen() made them.
SeqGenSettings(kwargs) ==
    LET ti_tv == Arg(kwargs, "ti_tv")
        general_rates == Arg(kwargs, "general_rates")
        gtr == general_rates # None /\ StrTruthy(general_rates[1])
        hky == ~gtr /\ ti_tv # None /\ FloatTruthy(ti_tv[1])
    IN  [char_model |-> IF gtr THEN "GTR" ELSE "HKY",
         seq_len |-> IF "seq_len" \in DOMAIN kwargs THEN kwargs["seq_len"]
                     ELSE DefaultSeqLen,
         state_freqs |-> Arg(kwargs, "state_freqs"),
         general_rates |-> IF gtr THEN general_rates ELSE None,
         ti_tv |-> IF hky THEN ti_tv ELSE None,
         gamma_shape |-> Arg(kwargs, "gamma_shape"),
         gamma_cats |-> Arg(kwargs, "gamma_cats"),
         prop_invar |-> Arg(kwargs, "prop_invar"),
         rng_seed |-> IF "rng_seed" \in DOMAIN kwargs THEN kwargs["rng_seed"]
                      ELSE None]

\* The outcome also tells whether Seq-Gen was run (ran).
simulate_matrix(tree, kwargs, ok) ==
    LET ti_tv == Arg(kwargs, "ti_tv")
        general_rates == Arg(kwargs, "general_rates")
        gamma_shape == Arg(kwargs, "gamma_shape")
        cats == Arg(kwargs, "gamma_cats")
        s == SeqGenSettings(kwargs)
    IN  IF /\ ti_tv # None /\ FloatTruthy(ti_tv[1])
           /\ general_rates # None /\ StrTruthy(general_rates[1])
        THEN [exc |-> "ValueError", ran |-> FALSE]
        ELSE IF /\ ~(gamma_shape # None /\ StrTruthy(gamma_shape[1]))
                /\ cats # None /\ cats[1] # 0
        THEN [exc |-> "ValueError", ran |-> FALSE]
        ELSE IF ~ok THEN [exc |-> "SeqGenError", ran |-> TRUE, settings |-> s]
        ELSE [exc |-> "none", ran |-> TRUE, settings |-> s,
              val |-> [char_matrix |-> <<"matrix", tree, s>>,
                       command |-> s,
                       tree |-> as_string(tree)]]

(***************************************************************************)
(* iter_seqgen_results: the body of the loop for one triple.               *)
(***************************************************************************)
\* A faulty variant: the tree of the result is the one of the first triple.
loop_body_first_tree(z, i, seq_len, cats, ok) ==
    LET item == ZipItem(z, i)
        params == get_seqgen_params(item[2])
    IN  IF params.exc # "none" THEN [exc |-> params.exc, ran |-> FALSE]
        ELSE simulate_matrix(ZipItem(z, 1)[1],
                 ("seq_len" :> seq_len) @@ ("rng_seed" :> item[3]) @@ params.val,
                 ok)

\* cats is the gamma_cats argument of iter_seqgen_results, which the body
\* does not pass on to simulate_matrix.
loop_body(z, i, seq_len, cats, ok) ==
    LET item == ZipItem(z, i)
        params == get_seqgen_params(item[2])
    IN  IF params.exc # "none" THEN [exc |-> params.exc, ran |-> FALSE]
        ELSE simulate_matrix(item[1],
                 ("seq_len" :> seq_len) @@ ("rng_seed" :> item[3]) @@ params.val,
                 ok)

(***************************************************************************)
(* main, from the lists it has read to the end of its loop.                *)
(***************************************************************************)
Tree(i) == <<"tree", i>>
Seed(i) == <<"seed", i>>

Freqs(a, c, g, t) ==
    ("pi(A)" :> S(a)) @@ ("pi(C)" :> S(c)) @@ ("pi(G)" :> S(g)) @@ ("pi(T)" :> S(t))
Rates == [k \in Range(RateKeys) |-> S("1.0")]
Kappa(k) == "kappa" :> S(k)

\* The records of the p-file: str values, as csv.DictReader gives them.
PipelineRecords ==
    { Freqs("0.25", "0.25", "0.25", "0.25"),
      Freqs("0.2", "0.2", "0.3", "0.3") @@ Kappa("2.0"),
      Freqs("0.25", "0.25", "0.25", "0.25") @@ Rates @@ ("alpha" :> S("0.5")),
      Freqs("0.2", "0.2", "0.3", "0.3") @@ Kappa("2.0") @@ Rates,
      Freqs("0.25", "0.25", "0.25", "0.25") @@ Kappa("0.0") @@ Rates,
      Freqs("0.5", "0.0", "0.5", "0.0") @@ Kappa("2.0"),
      Freqs("0.0", "0.5", "0.0", "0.5") @@ Kappa("2.0") @@ Rates,
      Kappa("2.0") @@ ("alpha" :> S("0.5")) @@ ("pinvar" :> S("0.1")) }

InitMain ==
    /\ pc = "start"
    /\ tree_list \in {[i \in 1..n |-> Tree(i)] : n \in 0..MaxN}
    /\ p_dicts \in UNION {[1..n -> PipelineRecords] : n \in 0..MaxN}
    /\ rng_seeds \in {None} \cup {Some([i \in 1..m |-> Seed(i)]) : m \in 0..MaxSeeds}
    /\ gamma_cats \in {None} \cup {Some(g) : g \in 1..MaxGammaCats}
    /\ simulation_input = None
    /\ results = <<>> /\ calls = <<>> /\ requests = 0 /\ error = "none"
    /\ mrbayes_params = <<>> /\ seqgen_params = None
    /\ titv_args = NoTitv /\ titv = None
    /\ commands_filepath \in {None, Some("commands.txt")}
    /\ trees_filepath \in {None, Some("trees.txt")}
    /\ todo = <<>> /\ sinks = [stdout |-> <<>>, commands |-> <<>>, trees |-> <<>>]
    /\ read_args = NoRead /\ read_out = None

direct_vars == <<mrbayes_params, seqgen_params, titv_args, titv, read_args, read_out>>
input_vars == <<tree_list, p_dicts, rng_seeds, gamma_cats,
                commands_filepath, trees_filepath>>

\* write_funcs: the (file, field) pairs of the enabled logs, in the order main
\* appends them.
write_funcs ==
    (IF commands_filepath # None
        THEN <<[fo |-> "commands", field |-> "command"]>> ELSE <<>>)
    \o (IF trees_filepath # None
        THEN <<[fo |-> "trees", field |-> "tree"]>> ELSE <<>>)

\* char_matrix.as_string(**schema_kwargs), the default schema
matrix_as_string(char_matrix) == <<"nexus", char_matrix>>

\* A faulty variant: the field is written twice.
write_to_file_twice(content, result, field) ==
    Append(Append(content, result[field]), result[field])

\* get_write_func's write_to_file: fo.write(getattr(result, field)); fo.flush()
write_to_file(content, result, field) == Append(content, result[field])

\* simulation_input = combine_simulation_input(tree_list, p_dicts, rng_seeds)
Combine ==
    /\ pc = "start"
    /\ LET r == combine_simulation_input(tree_list, p_dicts, rng_seeds)
       IN  IF r.exc = "none"
           THEN /\ simulation_input' = Some(r.val)
                /\ pc' = "combined"
                /\ error' = error
           ELSE /\ simulation_input' = None
                /\ pc' = "failed"
                /\ error' = r.exc
    /\ UNCHANGED <<input_vars, results, calls, requests, direct_vars, todo, sinks>>

\* A faulty variant: the first triple is simulated when the iterator is made.
MakeIterator_eager ==
    /\ pc = "combined"
    /\ pc' = "iterating"
    /\ calls' = Append(calls, [tree |-> tree_list[1],
                               settings |-> SeqGenSettings(EmptyDict)])
    /\ UNCHANGED <<input_vars, direct_vars, simulation_input, results, requests,
                   error, todo, sinks>>

\* result_iterator = iter_seqgen_results(...): a generator, none of its body run.
MakeIterator ==
    /\ pc = "combined"
    /\ pc' = "iterating"
    /\ UNCHANGED <<pipeline_vars, direct_vars>>

\* The caller asks for the next record: the generator runs to its next yield,
\* to its end, or to an exception.
NextRecord ==
    /\ pc = "iterating"
    /\ todo = <<>>
    /\ requests' = requests + 1
    /\ LET z == simulation_input[1]
       IN  IF z.pos >= ZipLen(z)
           THEN /\ pc' = "exhausted"
                /\ UNCHANGED <<simulation_input, results, calls, error, todo>>
           ELSE \E ok \in BOOLEAN :
                LET r == loop_body(z, z.pos + 1, DefaultSeqLen, gamma_cats, ok)
                IN  /\ simulation_input' = Some([z EXCEPT !.pos = z.pos + 1])
                    /\ calls' = IF r.ran
                                THEN Append(calls, [tree |-> ZipItem(z, z.pos + 1)[1],
                                                    settings |-> r.settings])
                                ELSE calls
                    /\ IF r.exc = "none"
                       THEN /\ results' = Append(results, r.val)
                            /\ todo' = <<[fo |-> "stdout", field |-> "char_matrix"]>>
                                        \o write_funcs
                            /\ UNCHANGED <<pc, error>>
                       ELSE /\ pc' = "failed"
                            /\ error' = r.exc
                            /\ UNCHANGED <<results, todo>>
    /\ UNCHANGED <<input_vars, direct_vars, sinks>>

\* The body of main's loop, one write at a time: the matrix to stdout, then
\* each write_func on the record just produced.
WriteSink ==
    /\ pc = "iterating"
    /\ todo # <<>>
    /\ LET w == Head(todo)
           result == results[Len(results)]
       IN  sinks' = [sinks EXCEPT ![w.fo] =
                        IF w.fo = "stdout"
                        THEN Append(@, matrix_as_string(result.char_matrix))
                        ELSE write_to_file(@, result, w.field)]
    /\ todo' = Tail(todo)
    /\ UNCHANGED <<input_vars, direct_vars, pc, simulation_input, results, calls,
                   requests, error>>

\* The caller stops consuming the iterator: it asks for nothing more.
StopConsuming ==
    /\ pc = "iterating"
    /\ todo = <<>>
    /\ pc' = "stopped"
    /\ UNCHANGED <<pipeline_vars, direct_vars>>

\* A faulty variant: next() on an iterator that raised goes on with the loop.
RequestAfterEnd_resume ==
    /\ pc \in {"exhausted", "failed"}
    /\ simulation_input # None
    /\ requests < Len(p_dicts) + 1 + MaxExtraRequests
    /\ requests' = requests + 1
    /\ pc' = IF pc = "failed" THEN "iterating" ELSE pc
    /\ UNCHANGED <<input_vars, direct_vars, simulation_input, results, calls,
                   error, todo, sinks>>

\* next() on a generator that has returned or raised: StopIteration, and
\* none of the body is run.
RequestAfterEnd ==
    /\ pc \in {"exhausted", "failed"}
    /\ simulation_input # None
    /\ requests < Len(p_dicts) + 1 + MaxExtraRequests
    /\ requests' = requests + 1
    /\ UNCHANGED <<input_vars, direct_vars, pc, simulation_input, results, calls,
                   error, todo, sinks>>

NextMain ==
    Combine \/ MakeIterator \/ NextRecord \/ WriteSink \/ StopConsuming
    \/ RequestAfterEnd

(***************************************************************************)
(* read_tfile and read_pfile.  A source with n draws is the list of its    *)
(* draws 1..n (the p-file has its two heading lines, which process_file    *)
(* and csv.DictReader take off); dendropy's tree_offset=skip gives the     *)
(* trees from index skip on.                                               *)
(***************************************************************************)
\* l[k:] and l[:n] for k, n >= 0
Drop(l, k) == SubSeq(l, k + 1, Len(l))
Take(l, n) == SubSeq(l, 1, Min(n, Len(l)))

\* islice(l, start, stop), stop None or a number
islice(l, start, stop) ==
    IF stop = None THEN Drop(l, start) ELSE Drop(Take(l, stop[1]), start)

read_tfile(trees, skip, num_records) ==
    IF num_records = None THEN Drop(trees, skip)
    ELSE Take(Drop(trees, skip), num_records[1])

\* stop = skip + num_records if num_records else None
read_pfile(rows, skip, num_records) ==
    LET stop == IF num_records # None /\ num_records[1] # 0
                THEN Some(skip + num_records[1]) ELSE None
    IN  islice(rows, skip, stop)

ReadArgs ==
    [draws : 0..MaxDraws, skip : 0..MaxSkip,
     num_records : {None} \cup {Some(n) : n \in 0..MaxNumRecords}]

InitRead ==
    /\ Idle
    /\ pc = "read"
    /\ mrbayes_params = <<>> /\ seqgen_params = None
    /\ titv_args = NoTitv /\ titv = None
    /\ read_args \in ReadArgs
    /\ read_out = None

\* tree_list = read_tfile(parser.tfile_path, parser.skip, parser.num_records)
CallReadTfile ==
    /\ pc = "read"
    /\ read_out = None
    /\ read_out' = Some([tree_list |->
                         read_tfile([i \in 1..read_args.draws |-> <<"tree", i>>],
                                    read_args.skip, read_args.num_records)])
    /\ UNCHANGED <<pipeline_vars, pc, mrbayes_params, seqgen_params, titv_args, titv,
                   read_args>>

\* p_dicts = read_pfile(parser.pfile_path, parser.skip, parser.num_records)
CallReadPfile ==
    /\ pc = "read"
    /\ read_out # None
    /\ DOMAIN read_out[1] = {"tree_list"}
    /\ read_out' = Some([tree_list |-> read_out[1].tree_list,
                         p_dicts |->
                         read_pfile([i \in 1..read_args.draws |-> <<"row", i>>],
                                    read_args.skip, read_args.num_records)])
    /\ UNCHANGED <<pipeline_vars, pc, mrbayes_params, seqgen_params, titv_args, titv,
                   read_args>>

NextRead == CallReadTfile \/ CallReadPfile

Init == InitTitv \/ InitParams \/ InitMain \/ InitRead

Next == NextTitv \/ NextParams \/ NextMain \/ NextRead

Spec == Init /\ [][Next]_vars

(***************************************************************************)
(* Properties.                                                             *)
(***************************************************************************)
InMain == simulation_input # None
Pos == simulation_input[1].pos
SeedOf(i) == IF rng_seeds = None THEN None ELSE rng_seeds[1][i]
AllFreqs(d) == HasKeys(d, Range(FreqKeys))
AllRates(d) == HasKeys(d, Range(RateKeys))
\* piA + piG = 0 or piC + piT = 0, for a record with the four frequencies
ZeroGroup(d) ==
    \/ FAdd(Float(d["pi(A)"]), Float(d["pi(G)"])) = FZero
    \/ FAdd(Float(d["pi(C)"]), Float(d["pi(T)"])) = FZero
\* The step for triple i failed with exception e before Seq-Gen was run.
RejectedWith(i, e) ==
    /\ i = Pos /\ pc = "failed" /\ error = e
    /\ Len(results) = i - 1 /\ Len(calls) = i - 1

\* C1: records come in input order: the i-th record yielded has the text
\* of the i-th tree and was simulated from the i-th tree with the parameters of
\* the i-th record and the i-th seed; when the iterator is exhausted (every
\* step succeeded) there are exactly N records; and a step can only fail by
\* Seq-Gen failing or on a record that has kappa and the four frequencies.
C1_RecordsInInputOrder ==
    InMain =>
        /\ Len(results) <= Len(p_dicts)
        /\ \A i \in 1..Len(results) :
              LET params == get_seqgen_params(p_dicts[i]).val
              IN  /\ results[i].tree = <<"newick", i>>
                  /\ results[i].tree = as_string(tree_list[i])
                  /\ results[i].char_matrix[2] = tree_list[i]
                  /\ results[i].char_matrix[3] = results[i].command
                  /\ results[i].command.rng_seed = SeedOf(i)
                  /\ results[i].command.state_freqs = Some(params["state_freqs"])
                  /\ results[i].command.general_rates = Arg(params, "general_rates")
                  /\ results[i].command.gamma_shape = Arg(params, "gamma_shape")
                  /\ results[i].command.prop_invar = Arg(params, "prop_invar")
                  /\ results[i].command.char_model =
                         (IF AllRates(p_dicts[i]) THEN "GTR" ELSE "HKY")
                  /\ calls[i] = [tree |-> tree_list[i], settings |-> results[i].command]
        /\ pc = "exhausted" =>
              /\ Len(results) = Len(p_dicts) /\ Len(p_dicts) >= 1
              /\ error = "none"
        /\ pc = "failed" =>
              \/ error = "SeqGenError"
              \/ HasKeys(p_dicts[Pos], {"kappa"}) /\ AllFreqs(p_dicts[Pos])

C1_Witness ==
    /\ InMain /\ pc = "exhausted" /\ Len(results) = 2
    /\ rng_seeds # None /\ Len(rng_seeds[1]) = 3
    /\ results[2].command.rng_seed = Seed(2)

\* C2: a record with kappa, the four frequencies and the six rates (whose
\* frequencies do not make kappa_to_titv raise) is rejected with the
\* configuration error (ValueError) and Seq-Gen is not run for it.
C2_BothModelsRejected ==
    InMain =>
        \A i \in 1..Pos :
            ( /\ HasKeys(p_dicts[i], {"kappa"})
              /\ AllFreqs(p_dicts[i]) /\ AllRates(p_dicts[i])
              /\ ~ZeroGroup(p_dicts[i]) )
            => RejectedWith(i, "ValueError")

\* C3: with --gamma-cats given, a record without alpha (whose translation
\* and rate models raise nothing) is rejected with the configuration error
\* (ValueError) and Seq-Gen is not run for it.
C3_GammaCatsWithoutShapeRejected ==
    (InMain /\ gamma_cats # None) =>
        \A i \in 1..Pos :
            ( /\ "alpha" \notin DOMAIN p_dicts[i]
              /\ ~(HasKeys(p_dicts[i], {"kappa"}) /\ AllFreqs(p_dicts[i])) )
            => RejectedWith(i, "ValueError")

InParams == pc = "params" /\ seqgen_params # None

\* C4, as claimed: get_seqgen_params fails with a missing-data error
\* (KeyError) when the record lacks one of the four frequencies.
C4_MissingFreqRaises ==
    (InParams /\ ~AllFreqs(mrbayes_params)) => seqgen_params[1].exc = "KeyError"

\* C4, amended: get_seqgen_params does not fail when the record lacks one
\* of the four frequencies: it returns a parameter set whose state_freqs is
\* '0.25,0.25,0.25,0.25' and which has no ti_tv.
C4_MissingFreqDefaults ==
    (InParams /\ ~AllFreqs(mrbayes_params)) =>
        /\ seqgen_params[1].exc = "none"
        /\ seqgen_params[1].val["state_freqs"] = "0.25,0.25,0.25,0.25"
        /\ "ti_tv" \notin DOMAIN seqgen_params[1].val

C4_Witness ==
    /\ InParams
    /\ DOMAIN mrbayes_params = {"pi(A)", "pi(C)", "pi(G)", "kappa"}
    /\ seqgen_params[1].exc = "none"

\* C5: every parameter set returned has state_freqs: the four values as
\* text joined by commas in the order A, C, G, T when the four are present,
\* '0.25,0.25,0.25,0.25' otherwise; a record of only the four frequencies
\* gives a parameter set with no other key.
C5_StateFreqs ==
    (InParams /\ seqgen_params[1].exc = "none") =>
        LET d == mrbayes_params
            val == seqgen_params[1].val
        IN  /\ "state_freqs" \in DOMAIN val
            /\ AllFreqs(d) =>
                  val["state_freqs"] =
                      Str(d["pi(A)"]) \o "," \o Str(d["pi(C)"]) \o "," \o
                      Str(d["pi(G)"]) \o "," \o Str(d["pi(T)"])
            /\ ~AllFreqs(d) => val["state_freqs"] = "0.25,0.25,0.25,0.25"
            /\ DOMAIN d = Range(FreqKeys) => DOMAIN val = {"state_freqs"}
            /\ d = ("pi(A)" :> F(1, 2)) @@ ("pi(C)" :> S("0.0"))
                    @@ ("pi(G)" :> S("0.250")) @@ ("pi(T)" :> S("0.250"))
                  => val = [state_freqs |-> "0.5,0.0,0.250,0.250"]

C5_Witness ==
    /\ InParams
    /\ mrbayes_params = ("pi(A)" :> F(1, 2)) @@ ("pi(C)" :> S("0.0"))
                          @@ ("pi(G)" :> S("0.250")) @@ ("pi(T)" :> S("0.250"))
    /\ seqgen_params[1] = Return([state_freqs |-> "0.5,0.0,0.250,0.250"])

InCombined == pc \in {"combined", "iterating", "exhausted", "failed", "stopped"}

\* C6: combine_simulation_input fails (AssertionError, no triples) exactly
\* when the numbers of records and trees differ, or seeds are given and are
\* fewer than the records, or there is no record.
C6_CombineFailsIff ==
    InCombined =>
        /\ ~InMain <=>
              \/ Len(p_dicts) # Len(tree_list)
              \/ rng_seeds # None /\ Len(rng_seeds[1]) < Len(p_dicts)
              \/ Len(p_dicts) = 0
        /\ ~InMain => pc = "failed" /\ error = "AssertionError"

C6_Witness ==
    /\ pc = "failed" /\ ~InMain /\ error = "AssertionError"
    /\ Len(p_dicts) = Len(tree_list) /\ Len(p_dicts) = 2
    /\ rng_seeds # None /\ Len(rng_seeds[1]) = 1

\* C7: an accepted input of N trees, N records and no seeds or M >= N seeds
\* gives exactly N triples, the i-th being (tree i, record i, seed i), the seed
\* None when no seeds are given; the seeds after the N-th are not used.
C7_TriplesByPosition ==
    InMain =>
        LET z == simulation_input[1]
            N == Len(p_dicts)
        IN  /\ ZipLen(z) = N
            /\ N = Len(tree_list)
            /\ rng_seeds # None => Len(rng_seeds[1]) >= N
            /\ \A i \in 1..N :
                  ZipItem(z, i) = <<tree_list[i], p_dicts[i],
                                    IF rng_seeds = None THEN None ELSE Seed(i)>>

C7_Witness ==
    /\ pc = "combined" /\ InMain
    /\ Len(p_dicts) = 2 /\ rng_seeds # None /\ Len(rng_seeds[1]) = 3
    /\ ZipLen(simulation_input[1]) = 2

InTitv == pc = "titv" /\ titv # None

C8_Rescaled(x, tot) ==
    IF FGt(FAbs(FSub(tot, FOne)), <<1, 1000000>>) THEN FDiv(x, tot) ELSE x

\* C8: for piA + piG > 0 and piC + piT > 0, kappa_to_titv returns
\* kappa * (a*g + c*t) / ((a+g) * (c+t)), with a, c, g, t the frequencies
\* divided by their sum when the sum is further than 1e-6 from 1, and the
\* result is the same when the four frequencies are multiplied by a common
\* positive factor.
C8_TitvValue ==
    LET k == titv_args.kappa
        tot == FAdd(FAdd(FAdd(titv_args.piA, titv_args.piC), titv_args.piG),
                    titv_args.piT)
        a == C8_Rescaled(titv_args.piA, tot)
        c == C8_Rescaled(titv_args.piC, tot)
        g == C8_Rescaled(titv_args.piG, tot)
        t == C8_Rescaled(titv_args.piT, tot)
    IN  ( /\ InTitv
          /\ FGt(FAdd(titv_args.piA, titv_args.piG), FZero)
          /\ FGt(FAdd(titv_args.piC, titv_args.piT), FZero) )
        => /\ titv[1].plain.exc = "none"
           /\ FMul(titv[1].plain.val, FMul(FAdd(a, g), FAdd(c, t)))
                 = FMul(k, FAdd(FMul(a, g), FMul(c, t)))
           /\ "scaled" \in DOMAIN titv[1] => titv[1].scaled = titv[1].plain
           /\ ( /\ k = FOne
                /\ {titv_args.piA, titv_args.piC, titv_args.piG, titv_args.piT}
                      = {Frac(1, 10)} )
              => titv[1].plain.val = Frac(1, 2)

C8_Witness ==
    /\ InTitv /\ "scaled" \in DOMAIN titv[1]
    /\ titv_args = [kappa |-> FOne, piA |-> Frac(1, 10), piC |-> Frac(1, 10),
                    piG |-> Frac(1, 10), piT |-> Frac(1, 10), factor |-> Frac(2, 1)]
    /\ titv[1].scaled = Return(Frac(1, 2))

\* C9: kappa_to_titv raises ZeroDivisionError when piA + piG = 0 or
\* piC + piT = 0; get_seqgen_params lets it through for a record with kappa
\* and such frequencies, and so does iter_seqgen_results: the step for that
\* record fails with it, yielding nothing and without running Seq-Gen.
C9_ZeroDivisionPropagates ==
    /\ ( /\ InTitv
         /\ \/ FAdd(titv_args.piA, titv_args.piG) = FZero
            \/ FAdd(titv_args.piC, titv_args.piT) = FZero )
       => \A n \in DOMAIN titv[1] : titv[1][n] = [exc |-> "ZeroDivisionError"]
    /\ ( /\ InParams
         /\ HasKeys(mrbayes_params, {"kappa"}) /\ AllFreqs(mrbayes_params)
         /\ ZeroGroup(mrbayes_params) )
       => seqgen_params[1] = [exc |-> "ZeroDivisionError"]
    /\ InMain =>
          \A i \in 1..Pos :
              ( /\ HasKeys(p_dicts[i], {"kappa"}) /\ AllFreqs(p_dicts[i])
                /\ ZeroGroup(p_dicts[i]) )
              => RejectedWith(i, "ZeroDivisionError")

C9_Witness ==
    /\ InMain /\ Pos = 2 /\ Len(results) = 1 /\ Len(calls) = 1
    /\ pc = "failed" /\ error = "ZeroDivisionError"
    /\ HasKeys(p_dicts[2], {"kappa"}) /\ ZeroGroup(p_dicts[2])

\* C10: in a parameter set returned, ti_tv is present iff kappa and the four
\* frequencies are, general_rates iff the six rates are, gamma_shape iff alpha
\* is, prop_invar iff pinvar is; a record lacking any of these is never an
\* error (the only failure is kappa_to_titv's, on a record with kappa and the
\* four frequencies); ti_tv and general_rates can both be present.
C10_OptionalKeysByPresence ==
    InParams =>
        LET d == mrbayes_params
            r == seqgen_params[1]
        IN  /\ r.exc = "none" =>
                  /\ "ti_tv" \in DOMAIN r.val <=>
                        (HasKeys(d, {"kappa"}) /\ AllFreqs(d))
                  /\ "general_rates" \in DOMAIN r.val <=> AllRates(d)
                  /\ "gamma_shape" \in DOMAIN r.val <=> "alpha" \in DOMAIN d
                  /\ "prop_invar" \in DOMAIN r.val <=> "pinvar" \in DOMAIN d
                  /\ DOMAIN r.val \subseteq {"state_freqs", "ti_tv", "general_rates",
                                             "gamma_shape", "prop_invar"}
            /\ r.exc # "none" =>
                  /\ r.exc = "ZeroDivisionError"
                  /\ HasKeys(d, {"kappa"}) /\ AllFreqs(d) /\ ZeroGroup(d)

C10_Witness ==
    /\ InParams /\ seqgen_params[1].exc = "none"
    /\ {"ti_tv", "general_rates"} \subseteq DOMAIN seqgen_params[1].val
    /\ "alpha" \notin DOMAIN mrbayes_params
    /\ "gamma_shape" \notin DOMAIN seqgen_params[1].val

\* C11: fail-fast.  When the step for the k-th triple raises, the error has
\* reached the caller, exactly the k-1 earlier records have been yielded, and
\* Seq-Gen has been run for no triple after the k-th; from then on the
\* iterator stays ended: no record is added or taken back, Seq-Gen is not run
\* again, no triple is consumed and nothing more is written.
C11_FailFast ==
    [][ /\ (InMain' /\ pc' = "failed") =>
              /\ error' # "none"
              /\ Len(results') = Pos' - 1
              /\ Len(calls') \in {Pos' - 1, Pos'}
              /\ \A j \in 1..Len(calls') : calls'[j].tree = tree_list'[j]
        /\ (InMain /\ pc = "failed") =>
              /\ pc' = "failed" /\ error' = error
              /\ results' = results /\ calls' = calls
              /\ simulation_input' = simulation_input
              /\ sinks' = sinks
      ]_vars

C11_Witness ==
    /\ InMain /\ pc = "failed" /\ error = "ValueError"
    /\ Len(p_dicts) = 2 /\ Pos = 1 /\ results = <<>> /\ calls = <<>>
    /\ requests = 2

StillToDo(fo) == \E j \in 1..Len(todo) : todo[j].fo = fo

\* C12: laziness.  Seq-Gen has been run at most as often as the caller has
\* asked for a record, and so have triples been taken from the zip; Seq-Gen
\* is run for triple i in the step that answers the i-th request; once the
\* caller has stopped, or the iterator is exhausted, no record is yielded and
\* Seq-Gen is not run any more.
C12_Lazy ==
    /\ [](/\ Len(calls) <= requests
          /\ Len(results) <= requests
          /\ InMain => Pos <= requests)
    /\ [][ /\ calls' # calls =>
                /\ requests' = requests + 1
                /\ calls' = Append(calls, calls'[Len(calls')])
                /\ Len(calls') = requests'
                /\ calls'[Len(calls')].tree = tree_list[requests']
           /\ pc \in {"stopped", "exhausted"} =>
                /\ pc' = pc /\ results' = results /\ calls' = calls
                /\ simulation_input' = simulation_input
         ]_vars

C12_Witness ==
    /\ pc = "stopped" /\ Len(p_dicts) = 2
    /\ requests = 1 /\ Len(calls) = 1 /\ Len(results) = 1 /\ Pos = 1

\* What n records leave in a sink.
C13_Expected(fo, n) ==
    IF fo = "stdout" THEN [i \in 1..n |-> <<"nexus", results[i].char_matrix>>]
    ELSE IF fo = "commands" /\ commands_filepath # None
    THEN [i \in 1..n |-> results[i].command]
    ELSE IF fo = "trees" /\ trees_filepath # None
    THEN [i \in 1..n |-> results[i].tree]
    ELSE <<>>

\* C13: each enabled sink holds one entry per record produced, in record
\* order (a sink not enabled holds nothing); within one record the writes go
\* to stdout, the command log, the tree log; a record is produced only when
\* the one before is in every sink; what is written stays; and when a step
\* fails, the sinks hold the earlier records and nothing else.
C13_SinksPerRecord ==
    /\ [](pc \notin {"titv", "params", "read"} =>
            /\ \A fo \in {"stdout", "commands", "trees"} :
                  sinks[fo] = C13_Expected(fo, IF StillToDo(fo) THEN Len(results) - 1
                                               ELSE Len(results))
            /\ \A j \in 1..Len(todo) : \A k \in 1..Len(todo) :
                  (j < k) => <<todo[j].fo, todo[k].fo>> \in
                      {<<"stdout", "commands">>, <<"stdout", "trees">>,
                       <<"commands", "trees">>}
            /\ pc \in {"failed", "exhausted", "stopped"} => todo = <<>>)
    /\ [][ /\ results' # results =>
                /\ todo = <<>> /\ sinks' = sinks
                /\ Len(todo') = 1 + (IF commands_filepath # None THEN 1 ELSE 0)
                                  + (IF trees_filepath # None THEN 1 ELSE 0)
           /\ \A fo \in {"stdout", "commands", "trees"} :
                \/ sinks'[fo] = sinks[fo]
                \/ /\ sinks'[fo] = Append(sinks[fo], sinks'[fo][Len(sinks'[fo])])
                   /\ results' = results
         ]_vars

C13_Witness ==
    /\ InMain /\ pc = "failed" /\ Pos = 2 /\ Len(results) = 1
    /\ commands_filepath # None /\ trees_filepath # None
    /\ sinks = [stdout |-> <<<<"nexus", results[1].char_matrix>>>>,
                commands |-> <<results[1].command>>,
                trees |-> <<results[1].tree>>]

InRead == pc = "read" /\ read_out # None /\ "p_dicts" \in DOMAIN read_out[1]

\* C14: for every skip >= 0 and every cap (absent or >= 0), read_tfile and
\* read_pfile on sources with the same number of draws give lists of the same
\* length whose i-th elements come from the same draw.
C14_SameDraws ==
    InRead =>
        LET trees == read_out[1].tree_list
            rows == read_out[1].p_dicts
        IN  /\ Len(trees) = Len(rows)
            /\ \A i \in 1..Min(Len(trees), Len(rows)) : trees[i][2] = rows[i][2]

====
